---- MODULE Spec2Model ----
(***************************************************************************)
(* Model of the duo-noodle bot (bots/duo_noodle_bot.py): the breadth-first *)
(* grid router get_bfs_path, the movement primitive move_towards, the      *)
(* nearest-tile search and the per-turn state machine of play_turn; and of *)
(* the order ranking build_order_priority_queue (src/order_priority.py).   *)
(*                                                                         *)
(* The game engine (robot_controller, the map, items, shop costs) is not   *)
(* part of the sources at hand.  Its answers are modelled from the         *)
(* interface the bot consumes: every Ctl* operator below is one request to *)
(* the controller, granted only when the engine's precondition holds and   *)
(* the engine does not refuse it this turn.                                *)
(*                                                                         *)
(* Left out of play_turn: the early return when the team has no bot (line  *)
(* 91), and its call of the ranking (lines 93-142), whose result is only   *)
(* printed and stored in current_order_id and never read by the FSM; the   *)
(* ranking is modelled on its own, as the function of its inputs.  The     *)
(* maps considered always have a SHOP, a SUBMIT and a TRASH tile: without  *)
(* one, find_nearest_tile returns None and unpacking it raises.            *)
(***************************************************************************)
EXTENDS Integers, Sequences, FiniteSets, TLC

VARIABLES
    state,             \* self.state, the FSM state
    assembly_counter,  \* self.assembly_counter, None or a cell
    cooker_loc,        \* self.cooker_loc, None or a cell
    tiles,             \* controller.get_map().tiles: cell -> tile_name
    bpos,              \* controller.get_bot_state(bot)['x'], ['y']
    holding,           \* controller.get_bot_state(bot)['holding']
    items,             \* tile.item of the counter and cooker tiles
    panFood,           \* tile.item.food of the pan: <<>> or <<cooked_stage>>
    money,             \* controller.get_team_money()
    log,               \* observation of the last turn (what was requested)
    submits,           \* end-to-end run: successful submits so far
    cycles,            \* end-to-end run: RESET -> CHECK_PAN transitions so far
    bfs,               \* router harness: the inputs and the result of one search
    rank               \* ranking harness: the inputs and the result of one call

vars == <<state, assembly_counter, cooker_loc, tiles, bpos, holding, items,
          panFood, money, log, submits, cycles, bfs, rank>>

(***************************************************************************)
(* Bounds of the model.                                                    *)
(***************************************************************************)
MaxMoney == 2
GW == 3
MaxGoals == 2
MaxTurn == 3
MaxReward == 1

\* Python's None (also: "no step", "tile not found").  A cell is <<x, y>>.
None == <<>>

Abs(n) == IF n < 0 THEN -n ELSE n
Max2(a, b) == IF a >= b THEN a ELSE b

\* max(abs(bx - tx), abs(by - ty))
Cheb(a, b) == Max2(Abs(a[1] - b[1]), Abs(a[2] - b[2]))

(***************************************************************************)
(* PATHFINDING: get_bfs_path.  The goal predicate is given by the set of   *)
(* cells it accepts, the walkability oracle by the set of walkable cells.  *)
(* A queue entry is [cell, path]; the search returns the first move of the *)
(* path of the first dequeued goal cell, <<0,0>> when that cell is the     *)
(* start, None when the queue runs empty.  iters counts loop iterations.   *)
(***************************************************************************)
\* as Dirs, left before right
DirsMutant == << <<-1, 0>>, <<1, 0>>, <<0, 1>>, <<0, -1>> >>

\* the neighbour order of the for-loop: right, left, down, up
Dirs == << <<1, 0>>, <<-1, 0>>, <<0, 1>>, <<0, -1>> >>

InBounds(w, h, c) == 0 <= c[1] /\ c[1] < w /\ 0 <= c[2] /\ c[2] < h

\* as BfsExpand, without the walkability test
RECURSIVE BfsExpandMutant(_, _, _, _, _, _, _)
BfsExpandMutant(w, h, walk, cur, i, queue, visited) ==
    IF i > Len(Dirs) THEN [queue |-> queue, visited |-> visited]
    ELSE LET d == Dirs[i]
             n == <<cur.cell[1] + d[1], cur.cell[2] + d[2]>>
         IN  IF InBounds(w, h, n) /\ n \notin visited
             THEN BfsExpandMutant(w, h, walk, cur, i + 1,
                                  Append(queue, [cell |-> n, path |-> Append(cur.path, d)]),
                                  visited \cup {n})
             ELSE BfsExpandMutant(w, h, walk, cur, i + 1, queue, visited)

\* the for-loop over the four neighbours of one dequeued cell
RECURSIVE BfsExpand(_, _, _, _, _, _, _)
BfsExpand(w, h, walk, cur, i, queue, visited) ==
    IF i > Len(Dirs) THEN [queue |-> queue, visited |-> visited]
    ELSE LET d == Dirs[i]
             n == <<cur.cell[1] + d[1], cur.cell[2] + d[2]>>
         IN  IF InBounds(w, h, n) /\ n \notin visited /\ n \in walk
             THEN BfsExpand(w, h, walk, cur, i + 1,
                            Append(queue, [cell |-> n, path |-> Append(cur.path, d)]),
                            visited \cup {n})
             ELSE BfsExpand(w, h, walk, cur, i + 1, queue, visited)

BfsReturnMutant(path) == IF path = <<>> THEN None ELSE path[1]

\* as BfsReturn, with the last move of the path
BfsReturnLast(path) == IF path = <<>> THEN <<0, 0>> ELSE path[Len(path)]

\* return (0, 0) if not path else path[0]
BfsReturn(path) == IF path = <<>> THEN <<0, 0>> ELSE path[1]

BfsIsGoalMutant(walk, goal, c) == c \in goal /\ c \in walk

\* target_predicate(x, y, tile)
BfsIsGoal(walk, goal, c) == c \in goal

\* the while-loop
RECURSIVE BfsLoop(_, _, _, _, _, _, _)
BfsLoop(w, h, walk, goal, queue, visited, iters) ==
    IF queue = <<>> THEN [step |-> None, iters |-> iters]
    ELSE LET cur == Head(queue)
         IN  IF BfsIsGoal(walk, goal, cur.cell)
             THEN [step |-> BfsReturn(cur.path), iters |-> iters + 1]
             ELSE CHOOSE r \in
                      {BfsLoop(w, h, walk, goal, x.queue, x.visited, iters + 1) :
                          x \in {BfsExpand(w, h, walk, cur, 1, Tail(queue), visited)}} :
                      TRUE

get_bfs_path(w, h, walk, goal, start) ==
    BfsLoop(w, h, walk, goal, <<[cell |-> start, path |-> <<>>]>>, {start}, 0)

(***************************************************************************)
(* The kitchen map of the state-machine runs.  Row y, column x.  The cell  *)
(* named DoorCell is a floor cell that the engine may block and unblock;   *)
(* the initial map may lack its cooker or its counters, which the engine   *)
(* may install later.                                                      *)
(***************************************************************************)
LayoutRows ==
    << <<"SHOP",    "FLOOR", "WALL",  "FLOOR", "COOKER">>,
       <<"COUNTER", "FLOOR", "FLOOR", "FLOOR", "SUBMIT">>,
       <<"WALL",    "TRASH", "WALL",  "WALL",  "COUNTER">> >>

W == Len(LayoutRows[1])
H == Len(LayoutRows)
Cells == (0 .. W - 1) \X (0 .. H - 1)
FullTiles == [c \in Cells |-> LayoutRows[c[2] + 1][c[1] + 1]]
DoorCell == <<2, 1>>
ItemCells == {c \in Cells : FullTiles[c] \in {"COUNTER", "COOKER"}}
StartCells == {c \in Cells : FullTiles[c] = "FLOOR"}

Without(names) == [c \in Cells |-> IF FullTiles[c] \in names THEN "WALL" ELSE FullTiles[c]]
Layouts == {FullTiles, Without({"COOKER"}), Without({"COUNTER"})}

\* controller.get_map().is_tile_walkable(x, y)
Walkable(t) == {c \in Cells : t[c] = "FLOOR"}

\* item kinds as the bot tells them apart: nothing, a Pan, a Plate, a Food
NoItem == "NONE"
Held == {NoItem, "PAN", "PLATE", "FOOD"}

\* ShopCosts.PAN.buy_cost, FoodType.MEAT.buy_cost, ShopCosts.PLATE.buy_cost,
\* FoodType.NOODLES.buy_cost
BuyCost == [PAN |-> 2, MEAT |-> 1, PLATE |-> 1, NOODLES |-> 1]
Bought == [PAN |-> "PAN", MEAT |-> "FOOD", PLATE |-> "PLATE", NOODLES |-> "FOOD"]

\* food.cooked_stage: 0 raw, COOKED done, beyond it burnt
COOKED == 1
BURNT == COOKED + 1

(***************************************************************************)
(* TILE SEARCH: find_nearest_tile scans x, then y, and keeps the first     *)
(* tile of the name at the strictly smallest Chebyshev distance.           *)
(***************************************************************************)
FarDist == 9999

RECURSIVE FindScan(_, _, _, _, _, _)
FindScan(t, b, tile_name, k, best, best_dist) ==
    IF k >= W * H THEN best
    ELSE LET c == <<k \div H, k % H>>
             d == Cheb(b, c)
         IN  IF t[c] = tile_name /\ d < best_dist
             THEN FindScan(t, b, tile_name, k + 1, c, d)
             ELSE FindScan(t, b, tile_name, k + 1, best, best_dist)

find_nearest_tile(t, b, tile_name) == FindScan(t, b, tile_name, 0, None, FarDist)

(***************************************************************************)
(* The controller during one turn.  e is what the turn sees and has done:  *)
(* the world (tiles, pos, holding, items, panFood, money), whether the     *)
(* engine grants requests this turn (ok), the requests issued so far       *)
(* (acts) and the targets navigated to (navs).  A request is granted when  *)
(* ok and the engine's precondition pre holds; its effect is then eff.     *)
(***************************************************************************)
Request(e, op, pre, eff) ==
    LET granted == e.ok /\ pre
        w == IF granted THEN eff ELSE e
    IN  [w EXCEPT !.acts = Append(e.acts, [op |-> op, ok |-> granted])]

\* the value the last request returned
Ret(e) == e.acts[Len(e.acts)].ok

Near(e, c) == Cheb(e.pos, c) <= 1

CtlMove(e, d) ==
    LET n == <<e.pos[1] + d[1], e.pos[2] + d[2]>>
    IN  Request(e, "move", n \in Walkable(e.tiles), [e EXCEPT !.pos = n])

CtlBuy(e, kind, c) ==
    Request(e, "buy",
            Near(e, c) /\ e.tiles[c] = "SHOP" /\ e.holding = NoItem
                /\ e.money >= BuyCost[kind],
            [e EXCEPT !.holding = Bought[kind], !.money = e.money - BuyCost[kind]])

\* onto an empty counter; a pan onto an empty cooker; food into an empty pan
CtlPlace(e, c) ==
    IF e.tiles[c] = "COOKER" /\ e.holding = "FOOD"
    THEN Request(e, "place",
                 Near(e, c) /\ e.items[c] = "PAN" /\ e.panFood = <<>>,
                 [e EXCEPT !.holding = NoItem, !.panFood = <<0>>])
    ELSE Request(e, "place",
                 Near(e, c) /\ e.holding # NoItem /\ e.items[c] = NoItem
                    /\ (e.tiles[c] = "COUNTER"
                        \/ (e.tiles[c] = "COOKER" /\ e.holding = "PAN")),
                 [e EXCEPT !.holding = NoItem, !.items[c] = e.holding])

CtlChop(e, c) ==
    Request(e, "chop", Near(e, c) /\ e.tiles[c] = "COUNTER" /\ e.items[c] = "FOOD", e)

CtlPickup(e, c) ==
    Request(e, "pickup",
            Near(e, c) /\ e.holding = NoItem /\ e.items[c] # NoItem,
            [e EXCEPT !.holding = e.items[c], !.items[c] = NoItem])

CtlAddFoodToPlate(e, c) ==
    Request(e, "add_food_to_plate",
            Near(e, c) /\ e.holding = "FOOD" /\ e.items[c] = "PLATE",
            [e EXCEPT !.holding = NoItem])

CtlTakeFromPan(e, c) ==
    Request(e, "take_from_pan",
            Near(e, c) /\ e.holding = NoItem /\ e.items[c] = "PAN" /\ e.panFood # <<>>,
            [e EXCEPT !.holding = "FOOD", !.panFood = <<>>])

CtlSubmit(e, c) ==
    Request(e, "submit",
            Near(e, c) /\ e.tiles[c] = "SUBMIT" /\ e.holding = "PLATE",
            [e EXCEPT !.holding = NoItem])

CtlTrash(e, c) ==
    Request(e, "trash",
            Near(e, c) /\ e.tiles[c] = "TRASH" /\ e.holding # NoItem,
            [e EXCEPT !.holding = NoItem])

(***************************************************************************)
(* move_towards: arrived (True) within Chebyshev distance 1 of the target; *)
(* otherwise one move along the router's step, if it has one, and False.   *)
(***************************************************************************)
NearGoal(t) == {c \in Cells : Cheb(c, t) <= 1}

MoveTowardsArrivedMutant(e, t, step) == TRUE

\* the value move_towards returns after the router was consulted
MoveTowardsArrived(e, t, step) == FALSE

move_towards(e, t) ==
    LET en == [e EXCEPT !.navs = Append(e.navs, t)]
    IN  IF Cheb(e.pos, t) <= 1 THEN [e |-> en, ret |-> TRUE]
        ELSE CHOOSE r \in
                 {[e |-> IF step # None /\ step # <<0, 0>> THEN CtlMove(en, step) ELSE en,
                   ret |-> MoveTowardsArrived(e, t, step)] :
                     step \in {get_bfs_path(W, H, Walkable(e.tiles), NearGoal(t), e.pos).step}} :
                 TRUE

(***************************************************************************)
(* MAIN TURN: one definition per branch of the FSM in play_turn.  hold and *)
(* b are the holding and the position read at the start of the turn, c and *)
(* k the cached assembly counter and cooker.  Each returns the controller  *)
(* after the branch and the value of self.state after it.                  *)
(***************************************************************************)
Out(e, s) == [e |-> e, state |-> s]

HasPan(e, k) == e.items[k] = "PAN"
PanHasFood(e, k) == e.items[k] = "PAN" /\ e.panFood # <<>>

\* In every branch below, m is the result of self.move_towards(...), taken
\* once: m.ret is the value it returned and m.e the controller after it.

\* if controller.<request>(...): self.state = next, and otherwise it stays s
Advance(a, s, next) == Out(a, IF Ret(a) THEN next ELSE s)

State0Mutant(e, k) == Out(e, 1)

\* STATE 0 - check for pan
State0(e, k) == Out(e, IF HasPan(e, k) THEN 2 ELSE 1)

\* STATE 1 - buy / place pan
State1(e, hold, b, k) ==
    IF hold # NoItem
    THEN
        CHOOSE r \in
            {IF m.ret THEN Out(CtlPlace(m.e, k), 2)
                      ELSE Out(m.e, 1) :
                m \in {move_towards(e, k)}} : TRUE
    ELSE
        CHOOSE r \in
            {IF m.ret THEN (IF m.e.money >= BuyCost.PAN
                        THEN Out(CtlBuy(m.e, "PAN", find_nearest_tile(e.tiles, b, "SHOP")), 1)
                        ELSE Out(m.e, 1))
                      ELSE Out(m.e, 1) :
                m \in {move_towards(e, find_nearest_tile(e.tiles, b, "SHOP"))}} : TRUE

\* as State2, buying without looking at the money
State2Mutant(e, b) ==
    CHOOSE r \in
        {IF m.ret THEN Advance(CtlBuy(m.e, "MEAT", find_nearest_tile(e.tiles, b, "SHOP")), 2, 3)
                  ELSE Out(m.e, 2) :
            m \in {move_towards(e, find_nearest_tile(e.tiles, b, "SHOP"))}} : TRUE

\* STATE 2 - buy meat
State2(e, b) ==
    CHOOSE r \in
        {IF m.ret THEN (IF m.e.money >= BuyCost.MEAT
                    THEN Advance(CtlBuy(m.e, "MEAT", find_nearest_tile(e.tiles, b, "SHOP")), 2, 3)
                    ELSE Out(m.e, 2))
                  ELSE Out(m.e, 2) :
            m \in {move_towards(e, find_nearest_tile(e.tiles, b, "SHOP"))}} : TRUE

\* STATE 3 - place meat
State3(e, c) ==
    CHOOSE r \in
        {IF m.ret THEN Out(CtlPlace(m.e, c), 4)
                  ELSE Out(m.e, 3) :
            m \in {move_towards(e, c)}} : TRUE

\* STATE 4 - chop
State4(e, c) ==
    CHOOSE r \in
        {IF m.ret THEN Advance(CtlChop(m.e, c), 4, 5)
                  ELSE Out(m.e, 4) :
            m \in {move_towards(e, c)}} : TRUE

\* STATE 5 - pickup meat
State5(e, c) ==
    CHOOSE r \in
        {IF m.ret THEN Advance(CtlPickup(m.e, c), 5, 6)
                  ELSE Out(m.e, 5) :
            m \in {move_towards(e, c)}} : TRUE

State6Mutant(e, k) ==
    CHOOSE r \in
        {IF m.ret THEN Out(CtlPlace(m.e, k), 7)
                  ELSE Out(m.e, 6) :
            m \in {move_towards(e, k)}} : TRUE

\* STATE 6 - cook meat
State6(e, k) ==
    CHOOSE r \in
        {IF m.ret THEN Out(CtlPlace(m.e, k), 8)
                  ELSE Out(m.e, 6) :
            m \in {move_towards(e, k)}} : TRUE

\* STATE 8 - buy plate
State8(e, b) ==
    CHOOSE r \in
        {IF m.ret THEN (IF m.e.money >= BuyCost.PLATE
                    THEN Advance(CtlBuy(m.e, "PLATE", find_nearest_tile(e.tiles, b, "SHOP")), 8, 9)
                    ELSE Out(m.e, 8))
                  ELSE Out(m.e, 8) :
            m \in {move_towards(e, find_nearest_tile(e.tiles, b, "SHOP"))}} : TRUE

\* STATE 9 - place plate
State9(e, c) ==
    CHOOSE r \in
        {IF m.ret THEN Out(CtlPlace(m.e, c), 10)
                  ELSE Out(m.e, 9) :
            m \in {move_towards(e, c)}} : TRUE

\* STATE 10 - buy noodles
State10(e, b) ==
    CHOOSE r \in
        {IF m.ret THEN (IF m.e.money >= BuyCost.NOODLES
                    THEN Advance(CtlBuy(m.e, "NOODLES", find_nearest_tile(e.tiles, b, "SHOP")), 10, 11)
                    ELSE Out(m.e, 10))
                  ELSE Out(m.e, 10) :
            m \in {move_towards(e, find_nearest_tile(e.tiles, b, "SHOP"))}} : TRUE

\* STATE 11 - add noodles
State11(e, c) ==
    CHOOSE r \in
        {IF m.ret THEN Advance(CtlAddFoodToPlate(m.e, c), 11, 12)
                  ELSE Out(m.e, 11) :
            m \in {move_towards(e, c)}} : TRUE

\* STATE 12 - wait for meat
State12(e, k) ==
    CHOOSE r \in
        {IF m.ret THEN (IF PanHasFood(m.e, k) /\ m.e.panFood[1] = COOKED
                    THEN Out(CtlTakeFromPan(m.e, k), 13)
                    ELSE Out(m.e, 12))
                  ELSE Out(m.e, 12) :
            m \in {move_towards(e, k)}} : TRUE

\* STATE 13 - add meat
State13(e, c) ==
    CHOOSE r \in
        {IF m.ret THEN Advance(CtlAddFoodToPlate(m.e, c), 13, 14)
                  ELSE Out(m.e, 13) :
            m \in {move_towards(e, c)}} : TRUE

State14Mutant(e, c) ==
    CHOOSE r \in
        {IF m.ret THEN Out(m.e, 15)
                  ELSE Out(m.e, 14) :
            m \in {move_towards(e, c)}} : TRUE

\* STATE 14 - pickup plate
State14(e, c) ==
    CHOOSE r \in
        {IF m.ret THEN Advance(CtlPickup(m.e, c), 14, 15)
                  ELSE Out(m.e, 14) :
            m \in {move_towards(e, c)}} : TRUE

\* STATE 15 - submit
State15(e, b) ==
    CHOOSE r \in
        {IF m.ret THEN Advance(CtlSubmit(m.e, find_nearest_tile(e.tiles, b, "SUBMIT")), 15, 17)
                  ELSE Out(m.e, 15) :
            m \in {move_towards(e, find_nearest_tile(e.tiles, b, "SUBMIT"))}} : TRUE

\* as State17, the counter cleared before the pan
State17Mutant(e, hold, b, c, k) ==
    IF hold # NoItem
    THEN IF hold = "PAN"
         THEN
             CHOOSE r \in
                 {IF m.ret THEN Out(CtlPlace(m.e, k), 17)
                           ELSE Out(m.e, 17) :
                     m \in {move_towards(e, k)}} : TRUE
         ELSE
             CHOOSE r \in
                 {IF m.ret THEN Out(CtlTrash(m.e, find_nearest_tile(e.tiles, b, "TRASH")), 17)
                           ELSE Out(m.e, 17) :
                     m \in {move_towards(e, find_nearest_tile(e.tiles, b, "TRASH"))}} : TRUE
    ELSE IF e.items[c] # NoItem THEN Out(CtlPickup(e, c), 17)
    ELSE IF PanHasFood(e, k) THEN Out(CtlTakeFromPan(e, k), 17)
    ELSE Out(e, 0)

\* as State17, walking to the cooker and to the counter before the request
State17Walks(e, hold, b, c, k) ==
    IF hold # NoItem
    THEN IF hold = "PAN"
         THEN
             CHOOSE r \in
                 {IF m.ret THEN Out(CtlPlace(m.e, k), 17)
                           ELSE Out(m.e, 17) :
                     m \in {move_towards(e, k)}} : TRUE
         ELSE
             CHOOSE r \in
                 {IF m.ret THEN Out(CtlTrash(m.e, find_nearest_tile(e.tiles, b, "TRASH")), 17)
                           ELSE Out(m.e, 17) :
                     m \in {move_towards(e, find_nearest_tile(e.tiles, b, "TRASH"))}} : TRUE
    ELSE IF PanHasFood(e, k)
    THEN CHOOSE r \in
             {IF m.ret THEN Out(CtlTakeFromPan(m.e, k), 17)
                       ELSE Out(m.e, 17) :
                 m \in {move_towards(e, k)}} : TRUE
    ELSE IF e.items[c] # NoItem
    THEN CHOOSE r \in
             {IF m.ret THEN Out(CtlPickup(m.e, c), 17)
                       ELSE Out(m.e, 17) :
                 m \in {move_towards(e, c)}} : TRUE
    ELSE Out(e, 0)

\* STATE 17 - full reset cleanup
State17(e, hold, b, c, k) ==
    IF hold # NoItem
    THEN IF hold = "PAN"
         THEN
             CHOOSE r \in
                 {IF m.ret THEN Out(CtlPlace(m.e, k), 17)
                           ELSE Out(m.e, 17) :
                     m \in {move_towards(e, k)}} : TRUE
         ELSE
             CHOOSE r \in
                 {IF m.ret THEN Out(CtlTrash(m.e, find_nearest_tile(e.tiles, b, "TRASH")), 17)
                           ELSE Out(m.e, 17) :
                     m \in {move_towards(e, find_nearest_tile(e.tiles, b, "TRASH"))}} : TRUE
    ELSE IF PanHasFood(e, k) THEN Out(CtlTakeFromPan(e, k), 17)
    ELSE IF e.items[c] # NoItem THEN Out(CtlPickup(e, c), 17)
    ELSE Out(e, 0)

\* the if / elif chain on self.state
Fsm(e, s, hold, b, c, k) ==
    CASE s = 0  -> State0(e, k)
      [] s = 1  -> State1(e, hold, b, k)
      [] s = 2  -> State2(e, b)
      [] s = 3  -> State3(e, c)
      [] s = 4  -> State4(e, c)
      [] s = 5  -> State5(e, c)
      [] s = 6  -> State6(e, k)
      [] s = 8  -> State8(e, b)
      [] s = 9  -> State9(e, c)
      [] s = 10 -> State10(e, b)
      [] s = 11 -> State11(e, c)
      [] s = 12 -> State12(e, k)
      [] s = 13 -> State13(e, c)
      [] s = 14 -> State14(e, c)
      [] s = 15 -> State15(e, b)
      [] s = 17 -> State17(e, hold, b, c, k)
      [] OTHER  -> Out(e, s)

ResolveMutant(cached, t, b, tile_name) == find_nearest_tile(t, b, tile_name)

\* if self.assembly_counter is None: self.assembly_counter = find_nearest_tile(...)
Resolve(cached, t, b, tile_name) ==
    IF cached = None THEN find_nearest_tile(t, b, tile_name) ELSE cached

EarlyExitMutant(e, s) == Out(e, 1)

\* if not self.assembly_counter or not self.cooker_loc: return
EarlyExit(e, s) == Out(e, s)

\* play_turn from the snapshot read at line 146 on; ok is the engine's
\* disposition this turn
play_turn(ok) ==
    LET e0 == [tiles |-> tiles, pos |-> bpos, holding |-> holding, items |-> items,
               panFood |-> panFood, money |-> money, ok |-> ok,
               acts |-> <<>>, navs |-> <<>>]
        ac == Resolve(assembly_counter, tiles, bpos, "COUNTER")
        cl == Resolve(cooker_loc, tiles, bpos, "COOKER")
        r  == IF ac = None \/ cl = None THEN EarlyExit(e0, state)
              ELSE Fsm(e0, state, holding, bpos, ac, cl)
    IN  [e |-> r.e, state |-> r.state, ac |-> ac, cl |-> cl]

(***************************************************************************)
(* Reachability, stated without the search: the cells connected to a cell  *)
(* through in-bounds walkable cells, by 4-neighbour steps.                 *)
(***************************************************************************)
Adjacent4(a, b) == Abs(a[1] - b[1]) + Abs(a[2] - b[2]) = 1

RECURSIVE ReachFrom(_, _, _)
ReachFrom(cells, walk, S) ==
    CHOOSE R \in {IF N = S THEN S ELSE ReachFrom(cells, walk, N) :
                     N \in {S \cup {c \in cells \cap walk : \E s \in S : Adjacent4(c, s)}}} :
        TRUE

(***************************************************************************)
(* The state machine run: one Turn per call of play_turn, and the engine's *)
(* own steps between turns.  log keeps what the last turn saw and did:     *)
(* the FSM state it started in, the requests it issued with their results, *)
(* the targets it navigated to, whether its target was cut off (blocked),  *)
(* whether a counter or a cooker was missing from the map, and whether the *)
(* cooker held a pan.                                                      *)
(***************************************************************************)
NoLog == [played |-> FALSE, prev |-> 0, acts |-> <<>>, navs |-> <<>>,
          blocked |-> FALSE, missing |-> FALSE, hadPan |-> FALSE]

BfsIdle == [walk |-> {}, goal |-> {}, start |-> <<0, 0>>, done |-> FALSE,
            step |-> None, iters |-> 0]
RankIdle == [orders |-> <<>>, cfg |-> None, done |-> FALSE, out |-> <<>>]

Has(t, tile_name) == \E c \in Cells : t[c] = tile_name

CutOff(t, b, target) ==
    /\ Cheb(b, target) > 1
    /\ ReachFrom(Cells, Walkable(t), {b}) \cap NearGoal(target) = {}

TurnWith(ok) ==
    \E r \in {play_turn(ok)} :
        /\ state' = r.state
        /\ assembly_counter' = r.ac
        /\ cooker_loc' = r.cl
        /\ bpos' = r.e.pos
        /\ holding' = r.e.holding
        /\ items' = r.e.items
        /\ panFood' = r.e.panFood
        /\ money' = r.e.money
        /\ log' = [played |-> TRUE, prev |-> state, acts |-> r.e.acts,
                   navs |-> r.e.navs,
                   blocked |-> r.e.navs # <<>> /\ CutOff(tiles, bpos, r.e.navs[1]),
                   missing |-> ~Has(tiles, "COUNTER") \/ ~Has(tiles, "COOKER"),
                   hadPan |-> r.cl # None /\ items[r.cl] = "PAN"]
        /\ UNCHANGED tiles

Init ==
    /\ state = 0
    /\ assembly_counter = None
    /\ cooker_loc = None
    /\ tiles \in Layouts
    /\ bpos \in StartCells
    /\ holding = NoItem
    /\ items \in {[c \in ItemCells |-> IF FullTiles[c] = "COOKER" THEN p ELSE NoItem] :
                  p \in {NoItem, "PAN"}}
    /\ panFood = <<>>
    /\ money \in 0 .. MaxMoney
    /\ log = NoLog
    /\ submits = 0
    /\ cycles = 0
    /\ bfs = BfsIdle
    /\ rank = RankIdle

\* the engine calls play_turn; it grants this turn's requests or refuses them
Turn ==
    /\ \E ok \in BOOLEAN : TurnWith(ok)
    /\ UNCHANGED <<submits, cycles, bfs, rank>>

\* the engine blocks or unblocks the door cell
EnvDoor ==
    /\ tiles' = [tiles EXCEPT ![DoorCell] = IF @ = "FLOOR" THEN "WALL" ELSE "FLOOR"]
    /\ UNCHANGED <<state, assembly_counter, cooker_loc, bpos, holding, items,
                   panFood, money, log, submits, cycles, bfs, rank>>

\* a counter or the cooker missing from the map is installed
EnvInstall ==
    /\ \E c \in ItemCells :
          /\ tiles[c] = "WALL"
          /\ tiles' = [tiles EXCEPT ![c] = FullTiles[c]]
    /\ UNCHANGED <<state, assembly_counter, cooker_loc, bpos, holding, items,
                   panFood, money, log, submits, cycles, bfs, rank>>

\* the food in the pan cooks on, past done to burnt
EnvCook ==
    /\ panFood # <<>>
    /\ panFood[1] < BURNT
    /\ panFood' = <<panFood[1] + 1>>
    /\ UNCHANGED <<state, assembly_counter, cooker_loc, tiles, bpos, holding, items,
                   money, log, submits, cycles, bfs, rank>>

\* the team earns money
EnvMoney ==
    /\ money < MaxMoney
    /\ money' = money + 1
    /\ UNCHANGED <<state, assembly_counter, cooker_loc, tiles, bpos, holding, items,
                   panFood, log, submits, cycles, bfs, rank>>

\* another actor of the kitchen puts an item (food, a plate, a spare pan) on a
\* counter or takes it off
EnvCounter ==
    /\ \E c \in ItemCells, v \in Held :
          /\ tiles[c] = "COUNTER"
          /\ items[c] # v
          /\ items' = [items EXCEPT ![c] = v]
    /\ UNCHANGED <<state, assembly_counter, cooker_loc, tiles, bpos, holding,
                   panFood, money, log, submits, cycles, bfs, rank>>

\* another actor puts raw food into the empty pan on the cooker
EnvPan ==
    /\ \E c \in ItemCells : tiles[c] = "COOKER" /\ items[c] = "PAN"
    /\ panFood = <<>>
    /\ panFood' = <<0>>
    /\ UNCHANGED <<state, assembly_counter, cooker_loc, tiles, bpos, holding, items,
                   money, log, submits, cycles, bfs, rank>>

Next == Turn \/ EnvDoor \/ EnvInstall \/ EnvCook \/ EnvMoney \/ EnvCounter \/ EnvPan

Spec == Init /\ [][Next]_vars

(***************************************************************************)
(* The end-to-end run: the full map with the door open, empty hands, an    *)
(* engine that grants every request whose precondition holds, income that  *)
(* keeps coming and food that cooks to done and stays done.  The run is    *)
(* followed through one cycle of the pipeline.                             *)
(***************************************************************************)
InitE2E ==
    /\ Init
    /\ tiles = FullTiles

Count(acts, op) == Cardinality({i \in 1 .. Len(acts) : acts[i].op = op /\ acts[i].ok})

TurnE2E ==
    /\ cycles = 0
    /\ TurnWith(TRUE)
    /\ submits' = submits + Count(log'.acts, "submit")
    /\ cycles' = IF state = 17 /\ state' = 0 THEN cycles + 1 ELSE cycles
    /\ UNCHANGED <<bfs, rank>>

EnvCookE2E ==
    /\ panFood # <<>>
    /\ panFood[1] < COOKED
    /\ panFood' = <<panFood[1] + 1>>
    /\ UNCHANGED <<state, assembly_counter, cooker_loc, tiles, bpos, holding, items,
                   money, log, submits, cycles, bfs, rank>>

NextE2E == TurnE2E \/ EnvCookE2E \/ EnvMoney

SpecE2E ==
    /\ InitE2E
    /\ [][NextE2E]_vars
    /\ WF_vars(TurnE2E)
    /\ WF_vars(EnvCookE2E)
    /\ WF_vars(EnvMoney)

(***************************************************************************)
(* The router on its own: every grid of GW x GH cells, every set of        *)
(* walkable cells, every goal predicate that accepts at most MaxGoals      *)
(* cells, every start cell; RunBfs is one call of get_bfs_path.            *)
(***************************************************************************)
GH == 2
BfsCells == (0 .. GW - 1) \X (0 .. GH - 1)

InitBFS ==
    /\ state = 0
    /\ assembly_counter = None
    /\ cooker_loc = None
    /\ tiles = FullTiles
    /\ bpos = DoorCell
    /\ holding = NoItem
    /\ items = [c \in ItemCells |-> NoItem]
    /\ panFood = <<>>
    /\ money = 0
    /\ log = NoLog
    /\ submits = 0
    /\ cycles = 0
    /\ rank = RankIdle
    /\ \E walk \in SUBSET BfsCells, goal \in SUBSET BfsCells, start \in BfsCells :
          /\ Cardinality(goal) <= MaxGoals
          /\ bfs = [walk |-> walk, goal |-> goal, start |-> start, done |-> FALSE,
                    step |-> None, iters |-> 0]

RunBfs ==
    /\ ~bfs.done
    /\ \E r \in {get_bfs_path(GW, GH, bfs.walk, bfs.goal, bfs.start)} :
          bfs' = [bfs EXCEPT !.done = TRUE, !.step = r.step, !.iters = r.iters]
    /\ UNCHANGED <<state, assembly_counter, cooker_loc, tiles, bpos, holding, items,
                   panFood, money, log, submits, cycles, rank>>

NextBFS == RunBfs

SpecBFS == InitBFS /\ [][NextBFS]_vars

(***************************************************************************)
(* ORDER RANKING: build_order_priority_queue.  A float is the exact        *)
(* rational <<numerator, denominator>> with a positive denominator; an     *)
(* order is a record of the fields the function reads, completed_turn and  *)
(* claimed_by being None when not set.  cfg holds current_turn, the four   *)
(* weights and the two flags of one call.                                  *)
(***************************************************************************)
Q(n) == <<n, 1>>
QNeg(a) == <<-a[1], a[2]>>
QAdd(a, b) == <<a[1] * b[2] + b[1] * a[2], a[2] * b[2]>>
QSub(a, b) == QAdd(a, QNeg(b))
QMul(a, b) == <<a[1] * b[1], a[2] * b[2]>>
\* a / b for b > 0 (every divisor of the function is at least 1)
QDiv(a, b) == <<a[1] * b[2], a[2] * b[1]>>
QLess(a, b) == a[1] * b[2] < b[1] * a[2]
QEq(a, b) == a[1] * b[2] = b[1] * a[2]
QMax(a, b) == IF QLess(a, b) THEN b ELSE a

\* the table the caller passes, and the default for a name it lacks
prep_time_by_food == [MEAT |-> Q(3), NOODLES |-> Q(0)]
default_prep_time == Q(1)

\* sum(prep_time_by_food.get(food, default_prep_time) for food in required)
RECURSIVE estimate_prep_turns(_, _, _)
estimate_prep_turns(required, table, dflt) ==
    IF required = <<>> THEN Q(0)
    ELSE QAdd(IF Head(required) \in DOMAIN table THEN table[Head(required)] ELSE dflt,
              estimate_prep_turns(Tail(required), table, dflt))

\* as Expired, dropping the order that expires this turn as well
ExpiredMutant(time_left) == time_left <= 0

\* if time_left < 0: continue
Expired(time_left) == time_left < 0

\* the four filters at the head of the loop body
Dropped(order, cfg) ==
    \/ order.completed_turn # None
    \/ ~cfg.allow_inactive /\ ~order.is_active
    \/ ~cfg.allow_claimed /\ order.claimed_by # None
    \/ Expired(order.expires_turn - cfg.current_turn)

\* as ActiveScore, the value term left out
ActiveScoreMutant(order, time_left, estimated_prep, slack, cfg) ==
    QSub(QAdd(QMul(cfg.urgency_weight, QDiv(Q(1), Q(Max2(time_left, 1)))),
              QMul(cfg.slack_weight, QDiv(Q(1), QAdd(Q(1), QMax(slack, Q(0)))))),
         QMax(Q(0), QNeg(slack)))

\* the score of an active order
ActiveScore(order, time_left, estimated_prep, slack, cfg) ==
    LET value == QAdd(Q(order.reward), Q(order.penalty))
        value_rate == QDiv(value, QMax(estimated_prep, Q(1)))
        urgency == QDiv(Q(1), Q(Max2(time_left, 1)))
        slack_score == QDiv(Q(1), QAdd(Q(1), QMax(slack, Q(0))))
        overdue_penalty == QMax(Q(0), QNeg(slack))
    IN  QSub(QAdd(QAdd(QMul(cfg.value_weight, value_rate),
                       QMul(cfg.urgency_weight, urgency)),
                  QMul(cfg.slack_weight, slack_score)),
             overdue_penalty)

\* as InactiveScore, rewarding the order that activates later
InactiveScoreMutant(order, cfg) ==
    QMul(cfg.activation_weight, Q(Max2(0, order.created_turn - cfg.current_turn)))

\* the score of an order that is not active yet
InactiveScore(order, cfg) ==
    LET turns_until_active == Max2(0, order.created_turn - cfg.current_turn)
    IN  QMul(QNeg(cfg.activation_weight), Q(turns_until_active))

\* the entry appended to prioritized: the order and its four annotations
Scored(order, cfg) ==
    LET time_left == order.expires_turn - cfg.current_turn
        estimated_prep == estimate_prep_turns(order.required, prep_time_by_food,
                                              default_prep_time)
        slack == QSub(Q(time_left), estimated_prep)
    IN  [order |-> order,
         priority_score |-> IF order.is_active
                            THEN ActiveScore(order, time_left, estimated_prep, slack, cfg)
                            ELSE InactiveScore(order, cfg),
         turns_left |-> time_left,
         estimated_prep |-> estimated_prep,
         slack |-> slack]

\* the for-loop over the input orders
RECURSIVE FilterScore(_, _)
FilterScore(orders, cfg) ==
    IF orders = <<>> THEN <<>>
    ELSE IF Dropped(Head(orders), cfg) THEN FilterScore(Tail(orders), cfg)
    ELSE <<Scored(Head(orders), cfg)>> \o FilterScore(Tail(orders), cfg)

\* as SortKey, turns_left not negated
SortKeyMutant(o) ==
    <<o.priority_score, Q(o.turns_left), Q(o.order.created_turn), Q(o.order.order_id)>>

\* the key of the sort
SortKey(o) ==
    <<o.priority_score, Q(-o.turns_left), Q(o.order.created_turn), Q(o.order.order_id)>>

\* tuple comparison: a < b
RECURSIVE KeyLess(_, _, _)
KeyLess(a, b, i) ==
    IF i > Len(a) THEN FALSE
    ELSE IF QLess(a[i], b[i]) THEN TRUE
    ELSE IF QLess(b[i], a[i]) THEN FALSE
    ELSE KeyLess(a, b, i + 1)

\* list.sort(key, reverse=True) is stable: o goes in front of the first entry
\* with a smaller key, behind every entry with an equal or larger one
RECURSIVE SortInsert(_, _)
SortInsert(sorted, o) ==
    IF sorted = <<>> THEN <<o>>
    ELSE IF KeyLess(SortKey(Head(sorted)), SortKey(o), 1) THEN <<o>> \o sorted
    ELSE <<Head(sorted)>> \o SortInsert(Tail(sorted), o)

RECURSIVE SortDescending(_, _)
SortDescending(prioritized, sorted) ==
    IF prioritized = <<>> THEN sorted
    ELSE SortDescending(Tail(prioritized), SortInsert(sorted, Head(prioritized)))

build_order_priority_queue(orders, cfg) == SortDescending(FilterScore(orders, cfg), <<>>)

(***************************************************************************)
(* The ranking on its own: every list of at most two orders drawn from     *)
(* Orders, under the default weights with every setting of the two flags   *)
(* and under the weights and flags of the bot's call, with and without a   *)
(* value weight.  RunRank is one call.                                     *)
(***************************************************************************)
current_turn == 1
Turns == 0 .. MaxTurn

\* orders that reach the scoring
ScoringOrders ==
    [order_id : {1, 2}, reward : 0 .. MaxReward, penalty : {0},
     created_turn : {0, MaxTurn}, expires_turn : Turns, is_active : BOOLEAN,
     claimed_by : {None}, completed_turn : {None},
     required : {<<"SAUCE">>, <<"NOODLES", "MEAT">>}]

\* orders for the filters: completed or not, claimed or not
FilterOrders ==
    [order_id : {1}, reward : {MaxReward}, penalty : {0},
     created_turn : {0}, expires_turn : {0, MaxTurn}, is_active : BOOLEAN,
     claimed_by : {None, <<1>>}, completed_turn : {None, <<0>>},
     required : {<<"SAUCE">>}]

Orders == ScoringOrders \cup FilterOrders

OrderLists == {<<>>} \cup {<<a>> : a \in Orders} \cup {<<a, b>> : a \in Orders, b \in Orders}

Weights(vw, uw, sw, aw) ==
    [value_weight |-> vw, urgency_weight |-> uw, slack_weight |-> sw,
     activation_weight |-> aw]

DefaultWeights == Weights(Q(1), Q(1), Q(1), Q(1))
BotWeights == Weights(Q(2), Q(2), <<3, 2>>, Q(1))
NoValueWeights == Weights(Q(0), Q(2), <<3, 2>>, Q(1))

Cfg(weights, allow_inactive, allow_claimed) ==
    [current_turn |-> current_turn,
     value_weight |-> weights.value_weight,
     urgency_weight |-> weights.urgency_weight,
     slack_weight |-> weights.slack_weight,
     activation_weight |-> weights.activation_weight,
     allow_inactive |-> allow_inactive,
     allow_claimed |-> allow_claimed]

Cfgs ==
    {Cfg(DefaultWeights, i, c) : i \in BOOLEAN, c \in BOOLEAN}
        \cup {Cfg(BotWeights, TRUE, FALSE), Cfg(NoValueWeights, TRUE, FALSE)}

InitRank ==
    /\ state = 0
    /\ assembly_counter = None
    /\ cooker_loc = None
    /\ tiles = FullTiles
    /\ bpos = DoorCell
    /\ holding = NoItem
    /\ items = [c \in ItemCells |-> NoItem]
    /\ panFood = <<>>
    /\ money = 0
    /\ log = NoLog
    /\ submits = 0
    /\ cycles = 0
    /\ bfs = BfsIdle
    /\ \E orders \in OrderLists, cfg \in Cfgs :
          rank = [orders |-> orders, cfg |-> cfg, done |-> FALSE, out |-> <<>>]

RunRank ==
    /\ ~rank.done
    /\ \E r \in {build_order_priority_queue(rank.orders, rank.cfg)} :
          rank' = [rank EXCEPT !.done = TRUE, !.out = r]
    /\ UNCHANGED <<state, assembly_counter, cooker_loc, tiles, bpos, holding, items,
                   panFood, money, log, submits, cycles, bfs>>

NextRank == RunRank

SpecRank == InitRank /\ [][NextRank]_vars

(***************************************************************************)
(* The claims.                                                             *)
(***************************************************************************)
Failable == {"buy", "chop", "pickup", "place", "submit", "take_from_pan"}
Resolved == assembly_counter # None /\ cooker_loc # None
CounterClear == \A c \in ItemCells : tiles[c] = "COUNTER" => items[c] = NoItem

\* C1: a turn issues at most one action request (move, buy, place, chop,
\* pickup, add-to-plate, take-from-pan, submit or trash), never two.
C1_AtMostOneRequest == Len(log.acts) <= 1

\* a turn that arrived at its target and issued its one request there
C1_Witness ==
    log.played /\ log.navs # <<>> /\ Len(log.acts) = 1 /\ log.acts[1].op # "move"

\* C2: when a buy, chop, pickup, place, submit or take-from-pan request of a
\* turn returns failure, the FSM state after the turn is the state before it.
C2_FailedRequestKeepsState ==
    \A i \in 1 .. Len(log.acts) :
        (log.acts[i].op \in Failable /\ ~log.acts[i].ok) => state = log.prev

\* C3: a turn that navigates to a target while the bot is not within
\* Chebyshev distance 1 of it and no cell within distance 1 of it is
\* reachable issues no request at all and leaves the FSM state unchanged.
C3_UnreachableIsNoOp == log.blocked => (log.acts = <<>> /\ state = log.prev)

\* a turn whose navigation target was cut off
C3_Witness == log.played /\ log.navs # <<>> /\ log.blocked

\* C4: a turn that starts in CHECK_PAN with both locations resolved issues no
\* request and ends in state 2 if the cooker tile held a pan, in state 1
\* otherwise.
C4_CheckPan ==
    (log.played /\ log.prev = 0 /\ Resolved) =>
        (log.acts = <<>> /\ state = IF log.hadPan THEN 2 ELSE 1)

\* a CHECK_PAN turn that saw the pan on the cooker
C4_Witness == log.played /\ log.prev = 0 /\ Resolved /\ log.hadPan /\ state = 2

\* C5: the end-to-end run reaches RESET after exactly one successful submit,
\* and RESET returns to CHECK_PAN with empty hands, clear counters and no
\* food in the pan.
C5_Done ==
    /\ cycles = 1
    /\ submits = 1
    /\ state = 0
    /\ holding = NoItem
    /\ CounterClear
    /\ panFood = <<>>

FsmStates == {0, 1, 2, 3, 4, 5, 6, 8, 9, 10, 11, 12, 13, 14, 15, 17}
FsmEdges ==
    {<<0, 1>>, <<0, 2>>, <<1, 2>>, <<2, 3>>, <<3, 4>>, <<4, 5>>, <<5, 6>>,
     <<6, 8>>, <<8, 9>>, <<9, 10>>, <<10, 11>>, <<11, 12>>, <<12, 13>>,
     <<13, 14>>, <<14, 15>>, <<15, 17>>, <<17, 0>>}

C6_SingleCycle ==
    /\ state \in FsmStates
    /\ log.prev \in FsmStates
    /\ state = log.prev \/ <<log.prev, state>> \in FsmEdges

\* the cycle closes: a turn took RESET to CHECK_PAN
C6_Witness == log.played /\ log.prev = 17 /\ state = 0

\* C7: a resolved assembly_counter (cooker_loc) keeps its value in every step.
C7_CacheFrozen ==
    [][/\ assembly_counter # None => assembly_counter' = assembly_counter
       /\ cooker_loc # None => cooker_loc' = cooker_loc]_vars

\* the bot has moved to where another counter is the nearest, and played on
C7_Witness ==
    /\ log.played
    /\ log.acts # <<>>
    /\ assembly_counter # None
    /\ find_nearest_tile(tiles, bpos, "COUNTER") # assembly_counter

\* C8: a turn on a map without a counter or without a cooker issues no
\* request and leaves the FSM state unchanged.
C8_MissingIsNoOp == log.missing => (log.acts = <<>> /\ state = log.prev)

\* a turn played on a map that lacks the cooker or the counters
C8_Witness == log.played /\ log.missing /\ ~Resolved

\* C9: when the start cell satisfies the goal predicate the router returns
\* (0, 0), walkable start or not.
C9_StartIsGoal == (bfs.done /\ bfs.start \in bfs.goal) => bfs.step = <<0, 0>>

\* a search from a goal cell that is not walkable
C9_Witness == bfs.done /\ bfs.start \in bfs.goal /\ bfs.start \notin bfs.walk

\* C10: the search ends within one iteration per cell, and it returns None
\* exactly when no goal cell is the start or connected to it through
\* in-bounds walkable cells.
C10_UnreachableIffNone ==
    bfs.done =>
        /\ bfs.iters <= Cardinality(BfsCells)
        /\ bfs.step = None <=>
               ReachFrom(BfsCells, bfs.walk, {bfs.start}) \cap bfs.goal = {}

\* a search that ran dry although some walkable cell satisfies the goal
C10_Witness ==
    /\ bfs.done
    /\ bfs.step = None
    /\ bfs.goal \cap bfs.walk # {}
    /\ bfs.iters > 1

\* the search returned a Move
BfsMoved == bfs.done /\ bfs.step # None /\ bfs.step # <<0, 0>>
BfsTarget(d) == <<bfs.start[1] + d[1], bfs.start[2] + d[2]>>

\* C11: every Move the router returns is one of the four unit steps, and the
\* cell start + Move is inside the grid and walkable.
C11_MoveIsWalkableUnitStep ==
    BfsMoved =>
        /\ bfs.step \in {<<1, 0>>, <<-1, 0>>, <<0, 1>>, <<0, -1>>}
        /\ BfsTarget(bfs.step) \in BfsCells
        /\ BfsTarget(bfs.step) \in bfs.walk

\* a Move out of a start cell that is not itself walkable, two hops or more
C11_Witness == BfsMoved /\ bfs.start \notin bfs.walk /\ bfs.iters > 2

\* the hop distance from the cells S to the nearest goal cell, every cell
\* entered being walkable; -1 when no goal cell can be reached
RECURSIVE HopsToGoal(_, _, _, _, _)
HopsToGoal(cells, walk, goal, S, k) ==
    IF S \cap goal # {} THEN k
    ELSE CHOOSE r \in
             {IF N = S THEN -1 ELSE HopsToGoal(cells, walk, goal, N, k + 1) :
                 N \in {S \cup {c \in cells \cap walk : \E s \in S : Adjacent4(c, s)}}} :
             TRUE

RightLeftDownUp == << <<1, 0>>, <<-1, 0>>, <<0, 1>>, <<0, -1>> >>

\* the directions that start a minimum-hop path from the start to a goal cell
ShortestFirstSteps ==
    {i \in 1 .. 4 :
        /\ BfsTarget(RightLeftDownUp[i]) \in BfsCells \cap bfs.walk
        /\ HopsToGoal(BfsCells, bfs.walk, bfs.goal, {BfsTarget(RightLeftDownUp[i])}, 1)
               = HopsToGoal(BfsCells, bfs.walk, bfs.goal, {bfs.start}, 0)}

\* C16: a Move the router returns is the first step of a minimum-hop path
\* through walkable in-bounds cells from the start to a nearest goal cell, and
\* among the first steps of all such paths it is the earliest in the order
\* right, left, down, up (the one the breadth-first search reaches first).
C16_ShortestPathFirstStep ==
    BfsMoved =>
        /\ ShortestFirstSteps # {}
        /\ bfs.step = RightLeftDownUp[CHOOSE i \in ShortestFirstSteps :
                                          \A j \in ShortestFirstSteps : i <= j]

\* two first steps tie, towards a goal two hops or more away, and the earlier
\* one is not "right"
C16_Witness ==
    /\ BfsMoved
    /\ Cardinality(ShortestFirstSteps) >= 2
    /\ HopsToGoal(BfsCells, bfs.walk, bfs.goal, {bfs.start}, 0) >= 2
    /\ bfs.step # <<1, 0>>

\* the orders of the ranked output, annotations taken off
RankedOrders == [i \in 1 .. Len(rank.out) |-> rank.out[i].order]
Occurs(seq, x) == Cardinality({i \in 1 .. Len(seq) : seq[i] = x})
RankInputs == {rank.orders[i] : i \in 1 .. Len(rank.orders)}

\* an order that passes the four filters of the call
Eligible(o) ==
    /\ o.completed_turn = None
    /\ o.is_active \/ rank.cfg.allow_inactive
    /\ o.claimed_by = None \/ rank.cfg.allow_claimed
    /\ o.expires_turn - rank.cfg.current_turn >= 0

\* C12: the ranked output contains exactly the input orders that pass the four
\* filters (not completed, active unless allow_inactive, unclaimed unless
\* allow_claimed, expires_turn - current_turn >= 0), each as often as the
\* input holds it, with turns_left = expires_turn - current_turn; so a
\* completed order or one with turns_left < 0 is never in the output, and an
\* eligible order with turns_left = 0 is.
C12_ExactlyTheEligible ==
    rank.done =>
        /\ \A o \in RankInputs :
               Occurs(RankedOrders, o) = IF Eligible(o) THEN Occurs(rank.orders, o) ELSE 0
        /\ \A i \in 1 .. Len(rank.out) :
               /\ rank.out[i].order \in RankInputs
               /\ rank.out[i].turns_left = rank.out[i].order.expires_turn - rank.cfg.current_turn

\* a completed order was dropped and an order expiring this very turn kept
C12_Witness ==
    /\ rank.done
    /\ Len(rank.orders) = 2
    /\ rank.orders[1].completed_turn # None
    /\ Len(rank.out) = 1
    /\ rank.out[1].turns_left = 0

\* a may stand in front of b in the ranked output
RanksBefore(a, b) ==
    \/ QLess(b.priority_score, a.priority_score)
    \/ /\ QEq(a.priority_score, b.priority_score)
       /\ \/ a.turns_left < b.turns_left
          \/ /\ a.turns_left = b.turns_left
             /\ \/ a.order.created_turn > b.order.created_turn
                \/ /\ a.order.created_turn = b.order.created_turn
                   /\ a.order.order_id >= b.order.order_id

\* C13: the ranked output is ordered descending by priority_score; among equal
\* scores smaller turns_left first; then larger created_turn first; then
\* larger order_id first.
C13_SortedByKey ==
    rank.done =>
        \A i \in 1 .. Len(rank.out), j \in 1 .. Len(rank.out) :
            i < j => RanksBefore(rank.out[i], rank.out[j])

\* two orders tied on score, turns_left and created_turn: the sort has put
\* the larger order_id in front of the smaller one that came first
C13_Witness ==
    /\ rank.done
    /\ Len(rank.out) = 2
    /\ QEq(rank.out[1].priority_score, rank.out[2].priority_score)
    /\ rank.out[1].turns_left = rank.out[2].turns_left
    /\ rank.out[1].order.created_turn = rank.out[2].order.created_turn
    /\ rank.out[1].order = rank.orders[2]
    /\ rank.orders[1].order_id < rank.orders[2].order_id

\* the call ranked two active, eligible orders that differ in reward only
RewardTwins ==
    /\ rank.done
    /\ Len(rank.orders) = 2
    /\ rank.orders[1].is_active
    /\ Eligible(rank.orders[1])
    /\ rank.orders[1].reward # rank.orders[2].reward
    /\ [rank.orders[1] EXCEPT !.reward = rank.orders[2].reward] = rank.orders[2]

HigherRewardFirst == Len(rank.out) = 2 /\ rank.out[1].order.reward > rank.out[2].order.reward

\* C14 as stated: of two active orders that pass the filters and are identical
\* except for reward, the one with the higher reward appears strictly earlier
\* in the ranked output.
C14_HigherRewardFirst == RewardTwins => HigherRewardFirst

\* C14, amended: the same under a positive value_weight.
C14_HigherRewardFirstPositiveWeight ==
    (RewardTwins /\ QLess(Q(0), rank.cfg.value_weight)) => HigherRewardFirst

\* the higher reward came second in the input and first in the output
C14_Witness ==
    /\ RewardTwins
    /\ QLess(Q(0), rank.cfg.value_weight)
    /\ rank.orders[1].reward < rank.orders[2].reward
    /\ rank.out[1].order = rank.orders[2]

Inactive(i) == ~rank.out[i].order.is_active
RankedPositions == 1 .. Len(rank.out)

\* C15 as stated: with allow_inactive, every not-yet-active order gets a
\* non-positive score, and whenever some active order in the output has a
\* non-negative score, every not-yet-active order stands behind every active
\* order in the output.
C15_InactiveBehindActive ==
    (rank.done /\ rank.cfg.allow_inactive) =>
        /\ \A i \in RankedPositions :
               Inactive(i) => ~QLess(Q(0), rank.out[i].priority_score)
        /\ (\E a \in RankedPositions :
                ~Inactive(a) /\ ~QLess(rank.out[a].priority_score, Q(0)))
               => \A i \in RankedPositions, a \in RankedPositions :
                      (Inactive(i) /\ ~Inactive(a)) => a < i

\* C15, amended: with allow_inactive and a non-negative activation_weight,
\* every not-yet-active order gets a non-positive score and stands behind
\* every active order of the output whose score is positive.
C15_InactiveBehindPositiveActive ==
    (rank.done /\ rank.cfg.allow_inactive
         /\ ~QLess(rank.cfg.activation_weight, Q(0))) =>
        /\ \A i \in RankedPositions :
               Inactive(i) => ~QLess(Q(0), rank.out[i].priority_score)
        /\ \A i \in RankedPositions, a \in RankedPositions :
               (Inactive(i) /\ ~Inactive(a) /\ QLess(Q(0), rank.out[a].priority_score))
                   => a < i

\* a not-yet-active order with a negative score came first in the input and
\* stands behind an active order with a positive score in the output
C15_Witness ==
    /\ rank.done
    /\ rank.cfg.allow_inactive
    /\ Len(rank.out) = 2
    /\ Inactive(2)
    /\ QLess(rank.out[2].priority_score, Q(0))
    /\ ~Inactive(1)
    /\ QLess(Q(0), rank.out[1].priority_score)
    /\ rank.out[2].order = rank.orders[1]

\* a step in which the bot played a turn that left a trace (the engine's own
\* steps change neither the log, the FSM state, the bot's cell nor its hands)
TurnStep == log' # log \/ state' # state \/ bpos' # bpos \/ holding' # holding
Issued(l, op) == \E i \in 1 .. Len(l.acts) : l.acts[i].op = op
AtCooker == cooker_loc # None /\ Cheb(bpos, cooker_loc) <= 1
AtCounter == assembly_counter # None /\ Cheb(bpos, assembly_counter) <= 1
FoodInPan == cooker_loc # None /\ items[cooker_loc] = "PAN" /\ panFood # <<>>
FoodDone == FoodInPan /\ panFood[1] >= COOKED

\* C17: a turn in AWAIT_COOKED that starts within Chebyshev distance 1 of the
\* cooker with the food in the pan at or past the done stage issues
\* take-from-pan and ends in ADD_COOKED; every other turn in AWAIT_COOKED
\* issues no take-from-pan and stays there.
C17_AwaitCooked ==
    [][(state = 12 /\ TurnStep) =>
           IF AtCooker /\ FoodDone
           THEN Issued(log', "take_from_pan") /\ state' = 13
           ELSE ~Issued(log', "take_from_pan") /\ state' = 12]_vars

OpsOf(l) == {l.acts[i].op : i \in 1 .. Len(l.acts)}

\* nothing left to clean up: empty hands, no food in the pan on the cooker,
\* no item on the assembly counter
ResetClear ==
    /\ holding = NoItem
    /\ ~FoodInPan
    /\ assembly_counter # None /\ items[assembly_counter] = NoItem

\* the turn walked towards t, or stood within reach of it and requested op
WalkThenRequest(l, pos, t, op) ==
    /\ l.navs = <<t>>
    /\ IF Cheb(pos, t) <= 1 THEN OpsOf(l) = {op} ELSE OpsOf(l) \subseteq {"move"}

\* C18: RESET moves to CHECK_PAN only on a turn that starts with empty hands,
\* no food in the pan on the cooker and no item on the counter; any other
\* turn in RESET stays in RESET and takes one cleanup step, the first that
\* applies of: return the held pan to the cooker, trash any other held item,
\* take the food from the pan, pick up the counter item.
C18_ResetCleanup ==
    [][/\ (state = 17 /\ state' = 0) => ResetClear
       /\ (state = 17 /\ TurnStep /\ ~ResetClear) =>
              /\ state' = 17
              /\ Len(log'.acts) <= 1
              /\ IF holding = "PAN"
                     THEN WalkThenRequest(log', bpos, cooker_loc, "place")
                 ELSE IF holding # NoItem
                     THEN WalkThenRequest(log', bpos,
                                          find_nearest_tile(tiles, bpos, "TRASH"), "trash")
                 ELSE IF FoodInPan
                     THEN OpsOf(log') = {"take_from_pan"} /\ log'.navs = <<>>
                 ELSE OpsOf(log') = {"pickup"} /\ log'.navs = <<>>]_vars

\* a RESET turn carried a spare pan back and requested to place it on the
\* cooker
C18_Witness ==
    /\ log.played
    /\ log.prev = 17
    /\ state = 17
    /\ log.navs = <<cooker_loc>>
    /\ OpsOf(log) = {"place"}

\* what the state buys, and the turns that take the buying branch
BuyStates == {1, 2, 8, 10}
CostAt(s) ==
    CASE s = 1 -> BuyCost.PAN
      [] s = 2 -> BuyCost.MEAT
      [] s = 8 -> BuyCost.PLATE
      [] s = 10 -> BuyCost.NOODLES
      [] OTHER -> 0
Buying == Resolved /\ state \in BuyStates /\ (state = 1 => holding = NoItem)
AtShop == Cheb(bpos, find_nearest_tile(tiles, bpos, "SHOP")) <= 1

\* C19: a turn issues a buy request only if it starts in a buying state within
\* Chebyshev distance 1 of the shop with the team money at least the buy cost
\* of that state's item; a buying turn that starts with less money issues no
\* buy and leaves the FSM state unchanged.
C19_BuyIsFundsGated ==
    [][/\ (TurnStep /\ Issued(log', "buy")) =>
              (Buying /\ AtShop /\ money >= CostAt(state))
       /\ (TurnStep /\ Buying /\ money < CostAt(state)) =>
              (~Issued(log', "buy") /\ state' = state)]_vars

\* the bot stands at the shop in ACQUIRE_PAN without the money for a pan: the
\* turn arrived and requested nothing
C19_Witness ==
    /\ log.played
    /\ log.prev = 1
    /\ state = 1
    /\ holding = NoItem
    /\ log.navs = <<find_nearest_tile(tiles, bpos, "SHOP")>>
    /\ AtShop
    /\ log.acts = <<>>
    /\ money < BuyCost.PAN

\* RESET with empty hands; with food in the pan out of reach; with an item on
\* the counter out of reach and the pan clear
EmptyReset == state = 17 /\ holding = NoItem /\ Resolved
StuckAtPan == EmptyReset /\ FoodInPan /\ ~AtCooker
StuckAtCounter ==
    EmptyReset /\ ~FoodInPan /\ items[assembly_counter] # NoItem /\ ~AtCounter

\* C20: a RESET turn with empty hands navigates nowhere and issues no move.
\* With food in the pan and the bot out of reach of the cooker the turn's one
\* request is a take-from-pan that fails, and every step, the bot's or the
\* engine's, leaves the FSM in that situation: it never returns to CHECK_PAN.
\* With an item on the counter out of reach the turn's one request is a
\* pickup that fails, and the turn leaves the FSM in that situation.
C20_ResetNeverWalks ==
    [][/\ (EmptyReset /\ TurnStep) =>
              (~Issued(log', "move") /\ log'.navs = <<>> /\ bpos' = bpos)
       /\ (StuckAtPan /\ TurnStep) =>
              log'.acts = <<[op |-> "take_from_pan", ok |-> FALSE]>>
       /\ StuckAtPan => StuckAtPan'
       /\ (StuckAtCounter /\ TurnStep) =>
              (log'.acts = <<[op |-> "pickup", ok |-> FALSE]>> /\ StuckAtCounter')]_vars

\* the bot stands out of reach of the cooker in RESET, its last turn asked
\* for the food in the pan and was refused
C20_Witness ==
    /\ StuckAtPan
    /\ log.prev = 17
    /\ log.acts = <<[op |-> "take_from_pan", ok |-> FALSE]>>

====
